---- MODULE Spec2Model ----
(***************************************************************************)
(* Model of the task manager: the `tasks` table behind the Supabase        *)
(* client, the data-access functions of src/lib/tasks.ts and the server    *)
(* actions of src/app/actions.ts.                                          *)
(*                                                                         *)
(* A table row, a JSON object and a FormData bag are records; a key that   *)
(* is missing from the record is SQL NULL / JSON null / FormData.get(k)    *)
(* returning null.  Text that is searched (title, description, search) is  *)
(* a sequence of one-character strings; ids, enum values and timestamps    *)
(* in their textual form are strings; a timestamptz column holds an        *)
(* instant, an integer.                                                    *)
(***************************************************************************)
EXTENDS Integers, Sequences, FiniteSets, TLC

VARIABLES tasks, clock, last, importing, ui

vars == <<tasks, clock, last, importing, ui>>

(***************************************************************************)
(* Bounds                                                                  *)
(***************************************************************************)
MaxClock == 2
MaxSearchLen == 2

(***************************************************************************)
(* Timestamps: their textual forms and the timestamptz conversion          *)
(***************************************************************************)
\* due dates the forms carry: instants later than every clock value
DueA == MaxClock + 3
DueB == MaxClock + 7
Instants == (0..MaxClock) \cup {DueA, DueB}

\* Date.prototype.toISOString(): the form the application writes
toISOString(n) == "T" \o ToString(n) \o "Z"

\* the form PostgREST renders a timestamptz column in
timestamptzOut(n) == "T" \o ToString(n) \o "+00:00"

IsTimestamp(s) == \E n \in Instants : s \in {toISOString(n), timestamptzOut(n)}

\* the instant a timestamptz column stores for an accepted input string
timestamptzIn(s) == CHOOSE n \in Instants : s \in {toISOString(n), timestamptzOut(n)}

(***************************************************************************)
(* The tasks table (README: CREATE TABLE tasks)                            *)
(***************************************************************************)
Columns == {"id", "title", "description", "due_date", "priority", "status", "created_at"}
TimeColumns == {"due_date", "created_at"}
Priorities == {"Low", "Medium", "High"}
Statuses == {"Incomplete", "In Progress", "Completed"}

Has(r, k) == k \in DOMAIN r

\* a JSON object is accepted as a row when the column types and the
\* constraints of the table accept it
RowAccepted(o) ==
    /\ DOMAIN o \subseteq Columns
    /\ Has(o, "id")
    /\ Has(o, "title")
    /\ Has(o, "priority") => o.priority \in Priorities
    /\ Has(o, "status") => o.status \in Statuses
    /\ \A k \in TimeColumns \cap DOMAIN o : IsTimestamp(o[k])

\* the stored row of an accepted object: timestamps become instants
ToRow(o) == [k \in DOMAIN o |-> IF k \in TimeColumns THEN timestamptzIn(o[k]) ELSE o[k]]

\* the JSON object PostgREST returns for a row
ToObject(r) == [k \in DOMAIN r |-> IF k \in TimeColumns THEN timestamptzOut(r[k]) ELSE r[k]]

Ids(t) == {r.id : r \in t}

\* an insert into a table whose id column is not a key
DbInsert_NoPrimaryKey(t, objs, up) ==
    IF up /\ \A i \in 1..Len(objs) : RowAccepted(objs[i])
    THEN [error |-> FALSE, table |-> t \cup {ToRow(objs[i]) : i \in 1..Len(objs)}]
    ELSE [error |-> TRUE, table |-> t]

\* insert(objs): one statement, all rows or none; up = the store answers
DbInsert(t, objs, up) ==
    IF /\ up
       /\ \A i \in 1..Len(objs) : RowAccepted(objs[i])
       /\ \A i \in 1..Len(objs) : objs[i].id \notin Ids(t)
       /\ \A i, j \in 1..Len(objs) : objs[i].id = objs[j].id => i = j
    THEN [error |-> FALSE, table |-> t \cup {ToRow(objs[i]) : i \in 1..Len(objs)}]
    ELSE [error |-> TRUE, table |-> t]

\* an update that writes the whole row anew, created_at included
Patched_Touch(r, cols, patch) ==
    [k \in (DOMAIN r \ cols) \cup DOMAIN patch \cup {"created_at"} |->
        IF k = "created_at" THEN clock
        ELSE IF k \in DOMAIN patch THEN ToRow(patch)[k] ELSE r[k]]

\* the row after update(patch): every column the patch names is replaced, a
\* column it names with null becomes NULL; cols = the keys of the patch object
Patched(r, cols, patch) ==
    [k \in (DOMAIN r \ cols) \cup DOMAIN patch |->
        IF k \in DOMAIN patch THEN ToRow(patch)[k] ELSE r[k]]

\* the update without single(): matching no row is not an error
DbUpdateEqSingle_NoSingle(t, id, cols, patch, up) ==
    LET hit == {r \in t : r.id = id}
        after == {Patched(r, cols, patch) : r \in hit}
        patchOk == \A k \in TimeColumns \cap DOMAIN patch : IsTimestamp(patch[k])
    IN  IF ~up \/ ~patchOk \/ \E r \in after : ~RowAccepted(ToObject(r))
        THEN [error |-> TRUE, table |-> t]
        ELSE [error |-> FALSE, table |-> (t \ hit) \cup after]

\* update(patch).eq('id', id).select().single(): no row or several rows
\* matched is an error of single()
DbUpdateEqSingle(t, id, cols, patch, up) ==
    LET hit == {r \in t : r.id = id}
        after == {Patched(r, cols, patch) : r \in hit}
        accepted == \A r \in after : RowAccepted(ToObject(r))
        patchOk == \A k \in TimeColumns \cap DOMAIN patch : IsTimestamp(patch[k])
    IN  IF ~up \/ ~patchOk \/ ~accepted \/ Cardinality(hit) # 1
        THEN [error |-> TRUE, table |-> t]
        ELSE [error |-> FALSE, table |-> (t \ hit) \cup after]

\* a delete that reports an error when it matched no row
DbDeleteEq_ErrorWhenMissing(t, id, up) ==
    IF up /\ id \in Ids(t) THEN [error |-> FALSE, table |-> {r \in t : r.id # id}]
    ELSE [error |-> TRUE, table |-> t]

\* delete().eq('id', id)
DbDeleteEq(t, id, up) ==
    IF up THEN [error |-> FALSE, table |-> {r \in t : r.id # id}]
    ELSE [error |-> TRUE, table |-> t]

\* delete().neq('id', id)
DbDeleteNeq(t, id, up) ==
    IF up THEN [error |-> FALSE, table |-> {r \in t : r.id = id}]
    ELSE [error |-> TRUE, table |-> t]

(***************************************************************************)
(* src/lib/supabase.ts                                                     *)
(***************************************************************************)
\* handleSupabaseError logs and throws: the statement after it in a catch
\* block is not reached
handleSupabaseError == "throw"

(***************************************************************************)
(* src/lib/tasks.ts                                                        *)
(***************************************************************************)
\* outcome of a catch block `handleSupabaseError(error); return v`
Caught(v) == IF handleSupabaseError = "throw" THEN "throw" ELSE v

\* up = the store answers the request the function makes
getTasks(t, up) ==
    IF up THEN [out |-> "rows", rows |-> t]
    ELSE [out |-> Caught("[]"), rows |-> {}]

\* select('*').eq('id', id).single(): an error unless one row has the id
getTaskById(t, id, up) ==
    IF up /\ id \in Ids(t) THEN [out |-> "task", rows |-> {r \in t : r.id = id}]
    ELSE [out |-> Caught("undefined"), rows |-> {}]

createTask(t, task, now, up) ==
    LET newTask == [k \in DOMAIN task \cup {"id", "created_at"} |->
                       IF k = "id" THEN ToString(now)
                       ELSE IF k = "created_at" THEN toISOString(now)
                       ELSE task[k]]
        ins == DbInsert(t, <<newTask>>, up)
    IN  [out |-> IF ins.error THEN "throw" ELSE "task", table |-> ins.table]

updateTask(t, id, cols, updatedTask, up) ==
    LET upd == DbUpdateEqSingle(t, id, cols, updatedTask, up)
    IN  [out |-> IF upd.error THEN Caught("null") ELSE "task", table |-> upd.table]

deleteTask(t, id, up) ==
    LET del == DbDeleteEq(t, id, up)
    IN  [out |-> IF del.error THEN Caught("false") ELSE "true", table |-> del.table]

\* String.prototype.toLowerCase / the case folding of ILIKE
LowerChar(c) == IF c = "A" THEN "a" ELSE IF c = "B" THEN "b" ELSE c
toLowerCase(s) == [i \in 1..Len(s) |-> LowerChar(s[i])]

\* SQL LIKE: % matches any run of characters, _ matches any one character
RECURSIVE Like(_, _)
Like(s, p) ==
    IF p = <<>> THEN s = <<>>
    ELSE IF Head(p) = "%" THEN Like(s, Tail(p)) \/ (s # <<>> /\ Like(Tail(s), p))
    ELSE IF s = <<>> THEN FALSE
    ELSE IF Head(p) = "_" THEN Like(Tail(s), Tail(p))
    ELSE Head(s) = Head(p) /\ Like(Tail(s), Tail(p))

\* column ILIKE pattern; NULL ILIKE pattern is not true
ILike(r, col, p) == Has(r, col) /\ Like(toLowerCase(r[col]), toLowerCase(p))

\* `if (filters.k)`: the filter is given and is not the empty string
Given(filters, k) == Has(filters, k) /\ filters[k] # (IF k = "search" THEN <<>> ELSE "")

\* the rows the query of getFilteredTasks selects (its where clauses)
Selected(t, filters) ==
    LET searchTerm == toLowerCase(filters.search)
        pattern == <<"%">> \o searchTerm \o <<"%">>
    IN  {r \in t :
            /\ Given(filters, "search") => ILike(r, "title", pattern) \/ ILike(r, "description", pattern)
            /\ Given(filters, "status") => Has(r, "status") /\ r.status = filters.status
            /\ Given(filters, "priority") => Has(r, "priority") /\ r.priority = filters.priority}

getFilteredTasks(t, filters, up) ==
    IF up THEN [out |-> "rows", rows |-> Selected(t, filters)]
    ELSE [out |-> Caught("[]"), rows |-> {}]

\* the orders in which a select without an order clause can return rows
Listings(S) == {q \in [1..Cardinality(S) -> S] : \A i, j \in 1..Cardinality(S) : q[i] = q[j] => i = j}

\* the characters of the texts below, in ascending code order: the order a
\* text column sorts by, character by character
CodeOrder == <<" ", "A", "B", "C", "H", "I", "L", "M", "P", "_", "a", "b", "c", "d", "e",
               "g", "h", "i", "l", "m", "n", "o", "p", "r", "s", "t", "u", "w">>
CharCode(c) == CHOOSE i \in 1..Len(CodeOrder) : CodeOrder[i] = c

\* the characters of the values of the priority and status columns
Spell(v) ==
    CASE v = "Low" -> <<"L", "o", "w">>
      [] v = "Medium" -> <<"M", "e", "d", "i", "u", "m">>
      [] v = "High" -> <<"H", "i", "g", "h">>
      [] v = "Incomplete" -> <<"I", "n", "c", "o", "m", "p", "l", "e", "t", "e">>
      [] v = "In Progress" -> <<"I", "n", " ", "P", "r", "o", "g", "r", "e", "s", "s">>
      [] v = "Completed" -> <<"C", "o", "m", "p", "l", "e", "t", "e", "d">>

\* text a sorts before text b
RECURSIVE TextLess(_, _)
TextLess(a, b) ==
    IF b = <<>> THEN FALSE
    ELSE IF a = <<>> THEN TRUE
    ELSE IF Head(a) = Head(b) THEN TextLess(Tail(a), Tail(b))
    ELSE CharCode(Head(a)) < CharCode(Head(b))

SortFields == {"title", "due_date", "priority", "status", "created_at"}

\* row a sorts before row b by the column col, ascending: timestamps by
\* instant, text by its characters, NULL after every value
ColLess(col, a, b) ==
    IF ~Has(a, col) THEN FALSE
    ELSE IF ~Has(b, col) THEN TRUE
    ELSE IF col \in TimeColumns THEN a[col] < b[col]
    ELSE IF col = "title" THEN TextLess(a[col], b[col])
    ELSE TextLess(Spell(a[col]), Spell(b[col]))

\* the order clause of getFilteredTasks: the column and whether ascending
OrderColumn(filters) ==
    IF Has(filters, "sortBy") /\ filters.sortBy # "" THEN filters.sortBy ELSE "created_at"

\* the direction taken from sortDirection also when no sortBy is given
OrderAscending_AlwaysDirection(filters) ==
    ~(Has(filters, "sortDirection") /\ filters.sortDirection = "desc")

OrderAscending(filters) ==
    IF Has(filters, "sortBy") /\ filters.sortBy # ""
    THEN ~(Has(filters, "sortDirection") /\ filters.sortDirection = "desc")
    ELSE FALSE

\* the lists the store can answer with: the selected rows in the order of the
\* order clause, rows of equal value in any order
Ordered(rows, filters) ==
    LET col == OrderColumn(filters)
        asc == OrderAscending(filters)
    IN  {q \in Listings(rows) :
            \A i \in 1..(Len(q) - 1) :
                IF asc THEN ~ColLess(col, q[i + 1], q[i]) ELSE ~ColLess(col, q[i], q[i + 1])}

\* setDate(getDate() + 7): the days the window of getTaskStats spans, in
\* clock units
SevenDays == 7

ZeroStats == [totalTasks |-> 0, completedTasks |-> 0, dueSoonTasks |-> 0]

\* a due soon filter that leaves the status out
DueSoon_AnyStatus(task, now, oneWeekFromNow) ==
    /\ Has(task, "due_date")
    /\ task.due_date >= now /\ task.due_date <= oneWeekFromNow

\* the filter of dueSoonTasks; new Date(null) is the epoch, before every now
DueSoon(task, now, oneWeekFromNow) ==
    /\ Has(task, "due_date")
    /\ task.due_date >= now /\ task.due_date <= oneWeekFromNow
    /\ ~(Has(task, "status") /\ task.status = "Completed")

\* now, now2 = the values of the two new Date() the function evaluates:
\* oneWeekFromNow is the second one moved seven days on
getTaskStats(t, now, now2, up) ==
    IF up
    THEN LET oneWeekFromNow == now2 + SevenDays
         IN  [out |-> "stats",
              stats |-> [totalTasks |-> Cardinality(t),
                         completedTasks |->
                             Cardinality({task \in t : Has(task, "status") /\ task.status = "Completed"}),
                         dueSoonTasks |->
                             Cardinality({task \in t : DueSoon(task, now, oneWeekFromNow)})]]
    ELSE [out |-> Caught("zero"), stats |-> ZeroStats]

\* a JSON text: valid = JSON.parse accepts it; kind and items = the value
\* it denotes (items: the elements when the value is an array)
JsonArray(items) == [valid |-> TRUE, kind |-> "array", items |-> items]
JsonNull == [valid |-> TRUE, kind |-> "null", items |-> <<>>]
JsonObject == [valid |-> TRUE, kind |-> "object", items |-> <<>>]
JsonInvalid == [valid |-> FALSE, kind |-> "none", items |-> <<>>]

\* exportTasksToJSON with the rows in the order data: JSON.stringify(data, null, 2)
exportTasksToJSON(data, up) ==
    IF up THEN [out |-> "json", json |-> JsonArray([i \in 1..Len(data) |-> ToObject(data[i])])]
    ELSE [out |-> Caught("[]"), json |-> JsonArray(<<>>)]

\* an import that deletes before it parses
importTasksFromJSON_DeleteFirst(t, jsonData, upDel, upIns) ==
    LET del == DbDeleteNeq(t, "dummy", upDel)
    IN  IF del.error THEN [out |-> Caught("false"), table |-> t]
        ELSE IF ~jsonData.valid \/ jsonData.kind = "null"
        THEN [out |-> Caught("false"), table |-> del.table]
        ELSE IF jsonData.kind = "array" /\ Len(jsonData.items) > 0
        THEN LET ins == DbInsert(del.table, jsonData.items, upIns)
             IN  [out |-> IF ins.error THEN Caught("false") ELSE "true", table |-> ins.table]
        ELSE [out |-> "true", table |-> del.table]

\* upDel, upIns = the store answers the delete and the insert request
importTasksFromJSON(t, jsonData, upDel, upIns) ==
    IF ~jsonData.valid THEN [out |-> Caught("false"), table |-> t]
    ELSE
      LET del == DbDeleteNeq(t, "dummy", upDel)
      IN  IF del.error THEN [out |-> Caught("false"), table |-> t]
          ELSE IF jsonData.kind = "null"
          THEN \* tasks.length of null: a TypeError, caught
               [out |-> Caught("false"), table |-> del.table]
          ELSE IF jsonData.kind = "array" /\ Len(jsonData.items) > 0
          THEN LET ins == DbInsert(del.table, jsonData.items, upIns)
               IN  [out |-> IF ins.error THEN Caught("false") ELSE "true", table |-> ins.table]
          ELSE \* an empty array, or a value whose length is undefined
               [out |-> "true", table |-> del.table]

\* the part of importTasksFromJSON up to its delete request, with the parse
\* before it, deleting nothing
ImportDeleteStep_NoDelete(t, jsonData, upDel) ==
    IF ~jsonData.valid \/ ~upDel THEN [out |-> Caught("false"), table |-> t]
    ELSE [out |-> "deleted", table |-> t]

\* the part of importTasksFromJSON up to the answer of its delete request
ImportDeleteStep(t, jsonData, upDel) ==
    IF ~jsonData.valid THEN [out |-> Caught("false"), table |-> t]
    ELSE
      LET del == DbDeleteNeq(t, "dummy", upDel)
      IN  IF del.error THEN [out |-> Caught("false"), table |-> t]
          ELSE [out |-> "deleted", table |-> del.table]

\* the part of importTasksFromJSON after its delete request was answered
ImportInsertStep(t, jsonData, upIns) ==
    IF jsonData.kind = "null" THEN [out |-> Caught("false"), table |-> t]
    ELSE IF jsonData.kind = "array" /\ Len(jsonData.items) > 0
    THEN LET ins == DbInsert(t, jsonData.items, upIns)
         IN  [out |-> IF ins.error THEN Caught("false") ELSE "true", table |-> ins.table]
    ELSE [out |-> "true", table |-> t]

(***************************************************************************)
(* src/app/actions.ts                                                      *)
(***************************************************************************)
FormFields == {"title", "description", "due_date", "priority", "status"}
RequiredFields == {"title", "due_date", "priority", "status"}

EmptyValue(k) == IF k \in {"title", "description"} THEN <<>> ELSE ""

\* !formData.get(k): the field is absent or the empty string
Falsy(formData, k) == ~Has(formData, k) \/ formData[k] = EmptyValue(k)

\* the test without its due_date operand
MissingRequired_NoDueDate(formData) == \E k \in RequiredFields \ {"due_date"} : Falsy(formData, k)

\* the `if (!title || !due_date || !priority || !status)` test
MissingRequired(formData) == \E k \in RequiredFields : Falsy(formData, k)

\* the object { title, description, due_date, priority, status } read from the form
Fields(formData) == [k \in DOMAIN formData \cap FormFields |-> formData[k]]

NoJson == JsonInvalid
NoForm == [k \in {} |-> ""]
NoFilters == [k \in {} |-> ""]

\* the import request that is under way, when requests run side by side:
\* pc = how far it is, res = what it returned, createdAtDelete and
\* createdAtInsert = addTask had stored its task when the step ran
NotImporting ==
    [pc |-> "idle", json |-> NoJson, res |-> "none",
     createdAtDelete |-> FALSE, createdAtInsert |-> FALSE]

\* the state of the page when no browser session is part of the run
NoPage == "none"

\* what the last request was and what it returned
Result(op, id, form, json, up, up2, res) ==
    [op |-> op, id |-> id, form |-> form, json |-> json, up |-> up, up2 |-> up2, res |-> res,
     filters |-> NoFilters, rows |-> {}, list |-> <<>>, stats |-> ZeroStats, now |-> 0, now2 |-> 0]

\* up = the store answers the request the action makes
addTask(formData) ==
    /\ IF MissingRequired(formData)
       THEN /\ tasks' = tasks
            /\ last' = Result("addTask", "", formData, NoJson, TRUE, TRUE, "missing")
       ELSE \E up \in BOOLEAN :
            LET c == createTask(tasks, Fields(formData), clock, up)
            IN  /\ tasks' = c.table
                /\ last' = Result("addTask", ToString(clock), formData, NoJson, up, TRUE,
                                  IF c.out = "throw" THEN "error" ELSE "success")
    /\ UNCHANGED <<clock, importing>>

editTask(id, formData) ==
    /\ IF MissingRequired(formData)
       THEN /\ tasks' = tasks
            /\ last' = Result("editTask", id, formData, NoJson, TRUE, TRUE, "missing")
       ELSE \E up \in BOOLEAN :
            LET u == updateTask(tasks, id, FormFields, Fields(formData), up)
            IN  /\ tasks' = u.table
                /\ last' = Result("editTask", id, formData, NoJson, up, TRUE,
                                  IF u.out = "throw" THEN "error"
                                  ELSE IF u.out = "task" THEN "success" ELSE "failure")
    /\ UNCHANGED <<clock, importing>>

removeTask(id) ==
    \E up \in BOOLEAN :
        LET del == DbDeleteEq(tasks, id, up)
        IN  /\ tasks' = del.table
            /\ last' = Result("removeTask", id, NoForm, NoJson, up, TRUE,
                              IF del.error THEN "failure" ELSE "success")
            /\ UNCHANGED <<clock, importing>>

deleteAllTasks ==
    \E up \in BOOLEAN :
        LET del == DbDeleteNeq(tasks, "dummy", up)
        IN  /\ tasks' = del.table
            /\ last' = Result("deleteAllTasks", "", NoForm, NoJson, up, TRUE,
                              IF del.error THEN "failure" ELSE "success")
            /\ UNCHANGED <<clock, importing>>

\* an export whose action has no catch block
exportTasks_NoCatch ==
    \E up \in BOOLEAN :
    \E data \in IF up THEN Listings(tasks) ELSE {<<>>} :
        LET e == exportTasksToJSON(data, up)
        IN  /\ last' = Result("exportTasks", "", NoForm,
                              IF e.out = "throw" THEN NoJson ELSE e.json,
                              up, TRUE, IF e.out = "throw" THEN "throw" ELSE "json")
            /\ UNCHANGED <<tasks, clock, importing>>

exportTasks ==
    \E up \in BOOLEAN :
    \E data \in IF up THEN Listings(tasks) ELSE {<<>>} :
        LET e == exportTasksToJSON(data, up)
        IN  /\ last' = Result("exportTasks", "", NoForm,
                              IF e.out = "throw" THEN JsonArray(<<>>) ELSE e.json,
                              up, TRUE, "json")
            /\ UNCHANGED <<tasks, clock, importing>>

\* an import whose failure leaves the table as it was before the request
importTasks_RollsBack(jsonData) ==
    \E upDel \in BOOLEAN :
    \E upIns \in IF jsonData.valid /\ upDel /\ jsonData.kind = "array" /\ jsonData.items # <<>>
                 THEN BOOLEAN ELSE {TRUE} :
        LET i == importTasksFromJSON(tasks, jsonData, upDel, upIns)
        IN  /\ tasks' = IF i.out = "true" THEN i.table ELSE tasks
            /\ last' = Result("importTasks", "", NoForm, jsonData, upDel, upIns,
                              IF i.out = "true" THEN "success" ELSE "failure")
            /\ UNCHANGED <<clock, importing>>

\* upDel, upIns = the store answers the delete and the insert request
importTasks(jsonData) ==
    \E upDel \in BOOLEAN :
    \E upIns \in IF jsonData.valid /\ upDel /\ jsonData.kind = "array" /\ jsonData.items # <<>>
                 THEN BOOLEAN ELSE {TRUE} :
        LET i == importTasksFromJSON(tasks, jsonData, upDel, upIns)
        IN  /\ tasks' = i.table
            /\ last' = Result("importTasks", "", NoForm, jsonData, upDel, upIns,
                              IF i.out = "true" THEN "success" ELSE "failure")
            /\ UNCHANGED <<clock, importing>>

\* rows = the tasks returned, list = the order they are returned in
fetchTasks(filters) ==
    \E up \in BOOLEAN :
        LET g == getFilteredTasks(tasks, filters, up)
            returned == IF g.out = "throw" THEN {} ELSE g.rows
        IN  \E data \in Ordered(returned, filters) :
            /\ last' = [Result("fetchTasks", "", NoForm, NoJson, up, TRUE, "tasks") EXCEPT
                           !.filters = filters,
                           !.rows = returned,
                           !.list = data]
            /\ UNCHANGED <<tasks, clock, importing>>

\* now, now2 = the clock values the two new Date() of getTaskStats read
fetchStats ==
    \E up \in BOOLEAN :
    \E now2 \in {clock} \cup (IF up /\ clock < MaxClock THEN {clock + 1} ELSE {}) :
        LET s == getTaskStats(tasks, clock, now2, up)
        IN  /\ last' = [Result("fetchStats", "", NoForm, NoJson, up, TRUE, "stats") EXCEPT
                           !.stats = IF s.out = "throw" THEN ZeroStats ELSE s.stats,
                           !.now = clock,
                           !.now2 = now2]
            /\ clock' = now2
            /\ UNCHANGED <<tasks, importing>>

\* importTasks up to the answer of the delete request of importTasksFromJSON
importDelete(jsonData) ==
    /\ importing.pc = "idle"
    /\ \E upDel \in BOOLEAN :
        LET d == ImportDeleteStep(tasks, jsonData, upDel)
        IN  /\ tasks' = d.table
            /\ importing' = [pc |-> IF d.out = "deleted" THEN "deleted" ELSE "done",
                             json |-> jsonData,
                             res |-> IF d.out = "deleted" THEN "none" ELSE "failure",
                             createdAtDelete |-> last.res = "success",
                             createdAtInsert |-> FALSE]
    /\ UNCHANGED <<clock, last>>

\* the rest of importTasks
importInsert ==
    /\ importing.pc = "deleted"
    /\ \E upIns \in IF importing.json.kind = "array" /\ importing.json.items # <<>>
                    THEN BOOLEAN ELSE {TRUE} :
        LET i == ImportInsertStep(tasks, importing.json, upIns)
        IN  /\ tasks' = i.table
            /\ importing' = [importing EXCEPT !.pc = "done",
                                              !.res = IF i.out = "true" THEN "success" ELSE "failure",
                                              !.createdAtInsert = last.res = "success"]
    /\ UNCHANGED <<clock, last>>

\* Date.now() advances between requests
Tick ==
    /\ clock < MaxClock
    /\ clock' = clock + 1
    /\ UNCHANGED <<tasks, last, importing>>

(***************************************************************************)
(* Inputs                                                                  *)
(***************************************************************************)
FormA == [title |-> <<"A", "b">>, description |-> <<"b", "_">>,
          due_date |-> toISOString(DueA), priority |-> "Low", status |-> "Incomplete"]
\* no description field
FormB == [title |-> <<"a">>,
          due_date |-> toISOString(DueB), priority |-> "High", status |-> "Completed"]
\* an empty description
FormC == [title |-> <<"_", "a">>, description |-> <<>>,
          due_date |-> toISOString(DueA), priority |-> "Medium", status |-> "In Progress"]

Without(f, k) == [j \in DOMAIN f \ {k} |-> f[j]]
Blank(f, k) == [f EXCEPT ![k] = EmptyValue(k)]

CompleteForms == {FormA, FormB, FormC}
IncompleteForms == {Without(FormA, k) : k \in RequiredFields} \cup {Blank(FormA, k) : k \in RequiredFields}
Forms == CompleteForms \cup IncompleteForms

\* a task object as an export writes it
TaskObject(id, created, f) ==
    [k \in DOMAIN f \cup {"id", "created_at"} |->
        IF k = "id" THEN id
        ELSE IF k = "created_at" THEN timestamptzOut(created)
        ELSE IF k = "due_date" THEN timestamptzOut(timestamptzIn(f[k]))
        ELSE f[k]]

\* the ids requests name: the ids createTask can assign, the id the delete
\* filters name, and an id no task ever has
UnknownId == "0"
TaskIds == {ToString(n) : n \in 1..MaxClock} \cup {"dummy", UnknownId}

ImportTexts ==
    { JsonInvalid, JsonNull, JsonObject,
      JsonArray(<<>>),
      JsonArray(<<TaskObject("1", 1, FormB)>>),
      JsonArray(<<TaskObject("dummy", 0, FormC)>>),
      JsonArray(<<TaskObject("dummy", 0, FormA), TaskObject("2", 2, FormB)>>),
      JsonArray(<<TaskObject("1", 1, FormA), TaskObject("1", 1, FormC)>>) }

(***************************************************************************)
(* The store and the requests made to it, one request at a time            *)
(***************************************************************************)
Init ==
    /\ tasks = {}
    /\ clock = 1
    /\ last = Result("none", "", NoForm, NoJson, TRUE, TRUE, "none")
    /\ importing = NotImporting
    /\ ui = NoPage

\* an import takes any text; the text of the last export is one of them
Importable == ImportTexts \cup (IF last.op = "exportTasks" THEN {last.json} ELSE {})

Next ==
    \/ Tick /\ UNCHANGED ui
    \/ \E f \in Forms : addTask(f) /\ UNCHANGED ui
    \/ \E id \in TaskIds, f \in Forms : editTask(id, f) /\ UNCHANGED ui
    \/ \E id \in TaskIds : removeTask(id) /\ UNCHANGED ui
    \/ deleteAllTasks /\ UNCHANGED ui
    \/ exportTasks /\ UNCHANGED ui
    \/ \E j \in Importable : importTasks(j) /\ UNCHANGED ui

Spec == Init /\ [][Next]_vars

TypeOK ==
    /\ clock \in 1..MaxClock
    /\ \A r \in tasks : DOMAIN r \subseteq Columns /\ Has(r, "id") /\ Has(r, "title")

(***************************************************************************)
(* Queries: getFilteredTasks over the collections of a few tasks           *)
(***************************************************************************)
Alphabet == {"a", "A", "b", "_"}
SearchTexts == UNION {[1..n -> Alphabet] : n \in 0..MaxSearchLen}

Option(k, V) == {NoFilters} \cup {[x \in {k} |-> v] : v \in V}
Merge(a, b) == [k \in DOMAIN a \cup DOMAIN b |-> IF k \in DOMAIN a THEN a[k] ELSE b[k]]

FilterInputs ==
    {Merge(s, Merge(st, p)) : s \in Option("search", SearchTexts),
                              st \in Option("status", Statuses \cup {""}),
                              p \in Option("priority", Priorities \cup {""})}

\* rows the requests above store: the task of form f created at clock n
CreatedRow(n, f) == ToRow(TaskObject(ToString(n), n, f))
QueryPool == {CreatedRow(1, FormA), CreatedRow(2, FormB), ToRow(TaskObject("dummy", 0, FormC))}

InitQuery ==
    /\ tasks \in SUBSET QueryPool
    /\ clock = 1
    /\ last = Result("none", "", NoForm, NoJson, TRUE, TRUE, "none")
    /\ importing = NotImporting
    /\ ui = NoPage

\* one query of each collection: the result of a query does not depend on
\* the queries made before it
NextQuery == last.op = "none" /\ \E f \in FilterInputs : fetchTasks(f) /\ UNCHANGED ui

SpecQuery == InitQuery /\ [][NextQuery]_vars

(***************************************************************************)
(* Sorting: getFilteredTasks with an order, asked again in the other       *)
(* direction                                                               *)
(***************************************************************************)
SortInputs ==
    {Merge(s, Merge(b, d)) : s \in Option("search", {<<"a">>}),
                             b \in Option("sortBy", SortFields \cup {""}),
                             d \in Option("sortDirection", {"asc", "desc", "DESC"})}

\* the filters handleSort sets when the field sorted by is chosen again
Toggled(filters) ==
    [filters EXCEPT !.sortDirection = IF filters.sortDirection = "asc" THEN "desc" ELSE "asc"]

NextSort ==
    \/ last.op = "none" /\ \E f \in SortInputs : fetchTasks(f) /\ UNCHANGED ui
    \/ /\ last.op = "fetchTasks"
       /\ Given(last.filters, "sortBy")
       /\ Has(last.filters, "sortDirection") /\ last.filters.sortDirection = "asc"
       /\ fetchTasks(Toggled(last.filters))
       /\ UNCHANGED ui

SpecSort == InitQuery /\ [][NextSort]_vars

(***************************************************************************)
(* Statistics: getTaskStats over collections of tasks due before, in and   *)
(* after the seven days                                                    *)
(***************************************************************************)
DueAt(f, n) == [f EXCEPT !.due_date = toISOString(n)]

StatsPool ==
    { CreatedRow(1, FormA),
      CreatedRow(2, DueAt(FormB, DueA)),
      ToRow(TaskObject("3", 0, DueAt(FormC, DueB))),
      ToRow(TaskObject("4", 0, DueAt(FormA, 1))),
      ToRow(TaskObject("dummy", 0, Without(FormC, "due_date"))) }

InitStats ==
    /\ tasks \in SUBSET StatsPool
    /\ clock = 1
    /\ last = Result("none", "", NoForm, NoJson, TRUE, TRUE, "none")
    /\ importing = NotImporting
    /\ ui = NoPage

NextStats ==
    \/ Tick /\ UNCHANGED ui
    \/ fetchStats /\ UNCHANGED ui

SpecStats == InitStats /\ [][NextStats]_vars

(***************************************************************************)
(* Two sessions: an import and a create, each store request landing when   *)
(* the store gets it                                                       *)
(***************************************************************************)
InitConc ==
    /\ tasks \in SUBSET QueryPool
    /\ clock = 1
    /\ last = Result("none", "", NoForm, NoJson, TRUE, TRUE, "none")
    /\ importing = NotImporting
    /\ ui = NoPage

NextConc ==
    \/ Tick /\ UNCHANGED ui
    \/ last.op = "none" /\ \E f \in CompleteForms : addTask(f) /\ UNCHANGED ui
    \/ \E j \in ImportTexts : importDelete(j) /\ UNCHANGED ui
    \/ importInsert /\ UNCHANGED ui

SpecConc == InitConc /\ [][NextConc]_vars

(***************************************************************************)
(* The page: the task list, the statistics panel, the task form, the       *)
(* import dialog and the delete-all dialog, with the server action calls   *)
(* they have under way                                                     *)
(***************************************************************************)
\* the most server action calls the user starts before one has completed,
\* and the most the user starts in all
MaxCalls == 2
MaxEvents == 3

NoOut == Result("none", "", NoForm, NoJson, TRUE, TRUE, "none")

\* the promise of a server action call that rejects (the request did not
\* reach the server action)
Rejected == [NoOut EXCEPT !.res = "rejected"]

\* a call of the server action op by the handler h; filters = the filters
\* state of the render whose closure made the call; phase: sent, answered
Call(h, op, id, form, json, filters) ==
    [h |-> h, op |-> op, id |-> id, form |-> form, json |-> json, filters |-> filters,
     phase |-> "sent", out |-> NoOut]

NoDone == [h |-> "none", res |-> "none", toast |-> "none"]

\* the handler h has completed with the result res of its call, showing toast
Done(u, h, res, toast) ==
    [u EXCEPT !.done = [h |-> h, res |-> res, toast |-> toast]]

\* refreshTasks up to its await, called from a render whose filters state is
\* filters
refreshTasksStart(u, filters) ==
    [u EXCEPT !.isLoading = TRUE,
              !.calls = Append(@, Call("refreshTasks", "fetchTasks", "", NoForm, NoJson, filters))]

\* refreshStats up to its await
refreshStatsStart(u) ==
    [u EXCEPT !.statsLoading = TRUE,
              !.calls = Append(@, Call("refreshStats", "fetchStats", "", NoForm, NoJson, NoFilters))]

\* the taskUpdate event reaches the two listeners; the listener of the task
\* list is the one registered by the first render (its effect has no
\* dependencies), so the refreshTasks it calls sees the filters of that render
dispatchTaskUpdate(u) == refreshStatsStart(refreshTasksStart(u, u.listener))

\* the state of the components at their first render
FirstRender(initialTasks, initialStats) ==
    [filters |-> NoFilters, searchTerm |-> <<>>, sortBy |-> "", sortDirection |-> "asc",
     tasks |-> initialTasks, shownFor |-> NoFilters, isLoading |-> FALSE,
     listener |-> NoFilters, isDialogOpen |-> FALSE,
     stats |-> initialStats, statsLoading |-> FALSE,
     isOpen |-> FALSE, isDeleting |-> FALSE, isImporting |-> FALSE,
     calls |-> <<>>, done |-> NoDone, events |-> 0]

\* the user starts a handler that calls a server action
Idle == Len(ui.calls) < MaxCalls /\ ui.events < MaxEvents
User(u) == [u EXCEPT !.events = @ + 1]

\* typing in the search box
setSearchTerm(s) ==
    /\ ui.searchTerm # s
    /\ ui' = [ui EXCEPT !.searchTerm = s]
    /\ UNCHANGED <<tasks, clock, last, importing>>

\* { ...filters, search: searchTerm }, and the effect on [filters]
handleSearch ==
    /\ Idle
    /\ LET newFilters == Merge([search |-> ui.searchTerm], ui.filters)
       IN  ui' = User(refreshTasksStart([ui EXCEPT !.filters = newFilters], newFilters))
    /\ UNCHANGED <<tasks, clock, last, importing>>

\* a handleSort that keeps the direction when the field is chosen again
handleSort_NoToggle(field) ==
    /\ Idle
    /\ LET direction == IF ui.sortBy = field THEN ui.sortDirection ELSE "asc"
           newFilters == Merge([sortBy |-> field, sortDirection |-> direction], ui.filters)
       IN  ui' = User(refreshTasksStart([ui EXCEPT !.sortBy = field,
                                                   !.sortDirection = direction,
                                                   !.filters = newFilters], newFilters))
    /\ UNCHANGED <<tasks, clock, last, importing>>

handleSort(field) ==
    /\ Idle
    /\ LET direction == IF ui.sortBy = field
                        THEN (IF ui.sortDirection = "asc" THEN "desc" ELSE "asc")
                        ELSE "asc"
           newFilters == Merge([sortBy |-> field, sortDirection |-> direction], ui.filters)
       IN  ui' = User(refreshTasksStart([ui EXCEPT !.sortBy = field,
                                                   !.sortDirection = direction,
                                                   !.filters = newFilters], newFilters))
    /\ UNCHANGED <<tasks, clock, last, importing>>

\* the user confirms the deletion of a displayed task
handleDelete(id) ==
    /\ Idle
    /\ \E i \in 1..Len(ui.tasks) : ui.tasks[i].id = id
    /\ ui' = [User(ui) EXCEPT !.calls = Append(@, Call("handleDelete", "removeTask", id, NoForm, NoJson,
                                                 ui.filters))]
    /\ UNCHANGED <<tasks, clock, last, importing>>

\* the Add Task dialog is opened
openDialog ==
    /\ ~ui.isDialogOpen
    /\ ui' = [ui EXCEPT !.isDialogOpen = TRUE]
    /\ UNCHANGED <<tasks, clock, last, importing>>

\* TaskForm.onSubmit up to its await; id = "" in the Add Task dialog, the id
\* of the displayed task being edited otherwise
onSubmit(id, values) ==
    /\ Idle
    /\ IF id = "" THEN ui.isDialogOpen ELSE \E i \in 1..Len(ui.tasks) : ui.tasks[i].id = id
    /\ ui' = [User(ui) EXCEPT !.calls = Append(@, Call("onSubmit", IF id = "" THEN "addTask" ELSE "editTask",
                                                 id, values, NoJson, ui.filters))]
    /\ UNCHANGED <<tasks, clock, last, importing>>

\* handleImport up to its await, with importData in the text box
handleImport(importData) ==
    /\ Idle
    /\ ~ui.isImporting
    /\ ui' = [User(ui) EXCEPT !.isImporting = TRUE,
                        !.calls = Append(@, Call("handleImport", "importTasks", "", NoForm,
                                                 importData, ui.filters))]
    /\ UNCHANGED <<tasks, clock, last, importing>>

\* the delete-all dialog is opened or closed (onOpenChange, Cancel); Cancel is
\* disabled while isDeleting
setIsOpen(open) ==
    /\ ui.isOpen # open
    /\ ui' = [ui EXCEPT !.isOpen = open]
    /\ UNCHANGED <<tasks, clock, last, importing>>

\* a handleDeleteAll whose button is not disabled while isDeleting
handleDeleteAll_NotDisabled ==
    /\ Idle
    /\ ui.isOpen
    /\ ui' = [User(ui) EXCEPT !.isDeleting = TRUE,
                        !.calls = Append(@, Call("handleDeleteAll", "deleteAllTasks", "", NoForm,
                                                 NoJson, ui.filters))]
    /\ UNCHANGED <<tasks, clock, last, importing>>

\* handleDeleteAll up to its await: the Delete All button of the open
\* dialog, disabled while isDeleting
handleDeleteAll ==
    /\ Idle
    /\ ui.isOpen /\ ~ui.isDeleting
    /\ ui' = [User(ui) EXCEPT !.isDeleting = TRUE,
                        !.calls = Append(@, Call("handleDeleteAll", "deleteAllTasks", "", NoForm,
                                                 NoJson, ui.filters))]
    /\ UNCHANGED <<tasks, clock, last, importing>>

\* the calls in phase sent (answered) made for the server action op (by the
\* handler h)
Sent(op) == {i \in 1..Len(ui.calls) : ui.calls[i].phase = "sent" /\ ui.calls[i].op = op}
Answered(h) == {i \in 1..Len(ui.calls) : ui.calls[i].phase = "answered" /\ ui.calls[i].h = h}

\* the call i has run on the server and returned what the action returned
Returned(i) == ui' = [ui EXCEPT !.calls[i] = [@ EXCEPT !.phase = "answered", !.out = last']]

\* the calls without the call i
Remove(calls, i) == SubSeq(calls, 1, i - 1) \o SubSeq(calls, i + 1, Len(calls))

\* the server runs the action of a call that was sent
serveFetchTasks == \E i \in Sent("fetchTasks") : fetchTasks(ui.calls[i].filters) /\ Returned(i)
serveFetchStats == \E i \in Sent("fetchStats") : fetchStats /\ Returned(i)
serveRemoveTask == \E i \in Sent("removeTask") : removeTask(ui.calls[i].id) /\ Returned(i)
serveDeleteAllTasks == \E i \in Sent("deleteAllTasks") : deleteAllTasks /\ Returned(i)
serveImportTasks == \E i \in Sent("importTasks") : importTasks(ui.calls[i].json) /\ Returned(i)
serveAddTask == \E i \in Sent("addTask") : addTask(ui.calls[i].form) /\ Returned(i)
serveEditTask == \E i \in Sent("editTask") : editTask(ui.calls[i].id, ui.calls[i].form) /\ Returned(i)

\* the request of a call does not reach its server action: the await throws
reject ==
    /\ \E i \in 1..Len(ui.calls) :
          /\ ui.calls[i].phase = "sent"
          /\ ui' = [ui EXCEPT !.calls[i] = [@ EXCEPT !.phase = "answered", !.out = Rejected]]
    /\ UNCHANGED <<tasks, clock, last, importing>>

\* refreshTasks from its await on: setTasks(newTasks || []), or the toast of
\* the catch block; finally setIsLoading(false)
refreshTasksDone ==
    /\ \E i \in Answered("refreshTasks") :
        LET c == ui.calls[i]
            u == [ui EXCEPT !.calls = Remove(@, i), !.isLoading = FALSE]
        IN  ui' = IF c.out.res = "rejected"
                  THEN Done(u, c.h, c.out.res, "error")
                  ELSE Done([u EXCEPT !.tasks = c.out.list, !.shownFor = c.filters],
                            c.h, c.out.res, "none")
    /\ UNCHANGED <<tasks, clock, last, importing>>

\* refreshStats from its await on
refreshStatsDone ==
    /\ \E i \in Answered("refreshStats") :
        LET c == ui.calls[i]
            u == [ui EXCEPT !.calls = Remove(@, i), !.statsLoading = FALSE]
        IN  ui' = IF c.out.res = "rejected"
                  THEN Done(u, c.h, c.out.res, "error")
                  ELSE Done([u EXCEPT !.stats = c.out.stats], c.h, c.out.res, "none")
    /\ UNCHANGED <<tasks, clock, last, importing>>

\* handleDelete from its await on: on success a toast and refreshTasks() of
\* the render that handled the click, otherwise the error toast
handleDeleteDone ==
    /\ \E i \in Answered("handleDelete") :
        LET c == ui.calls[i]
            u == [ui EXCEPT !.calls = Remove(@, i)]
        IN  ui' = IF c.out.res = "success"
                  THEN refreshTasksStart(Done(u, c.h, c.out.res, "success"), c.filters)
                  ELSE Done(u, c.h, c.out.res, "error")
    /\ UNCHANGED <<tasks, clock, last, importing>>

\* handleDeleteAll from its await on
handleDeleteAllDone ==
    /\ \E i \in Answered("handleDeleteAll") :
        LET c == ui.calls[i]
            u == [ui EXCEPT !.calls = Remove(@, i), !.isDeleting = FALSE]
        IN  ui' = IF c.out.res = "success"
                  THEN dispatchTaskUpdate(Done([u EXCEPT !.isOpen = FALSE], c.h, c.out.res, "success"))
                  ELSE Done(u, c.h, c.out.res, "error")
    /\ UNCHANGED <<tasks, clock, last, importing>>

\* handleImport from its await on
handleImportDone ==
    /\ \E i \in Answered("handleImport") :
        LET c == ui.calls[i]
            u == [ui EXCEPT !.calls = Remove(@, i), !.isImporting = FALSE]
        IN  ui' = Done(u, c.h, c.out.res, IF c.out.res = "success" THEN "success" ELSE "error")
    /\ UNCHANGED <<tasks, clock, last, importing>>

\* TaskForm.onSubmit from its await on: whatever the action returned, the
\* form is reset and onSuccess closes the dialog and calls refreshTasks();
\* the catch block only logs.  router.refresh() renders the page again with
\* new initialTasks and initialStats, which useState does not read again.
onSubmitDone ==
    /\ \E i \in Answered("onSubmit") :
        LET c == ui.calls[i]
            u == [ui EXCEPT !.calls = Remove(@, i)]
        IN  ui' = IF c.out.res = "rejected"
                  THEN Done(u, c.h, c.out.res, "none")
                  ELSE refreshTasksStart(Done([u EXCEPT !.isDialogOpen = FALSE], c.h, c.out.res, "none"),
                                         c.filters)
    /\ UNCHANGED <<tasks, clock, last, importing>>

\* what the user types and chooses
PageSearchTerms == {<<>>, <<"a">>}
PageSortFields == {"title", "due_date"}
PagePool == {CreatedRow(1, FormA), CreatedRow(2, FormB)}

\* what the user submits in the task form and pastes in the import dialog
PageForms == {FormC}
PageImports == {JsonInvalid, JsonArray(<<TaskObject("1", 1, FormB)>>)}

\* the page is rendered with the tasks and statistics of the store (Home),
\* and the refreshes of its mount effects have completed
InitPage ==
    /\ tasks = {CreatedRow(1, FormA)}
    /\ clock = MaxClock
    /\ last = Result("none", "", NoForm, NoJson, TRUE, TRUE, "none")
    /\ importing = NotImporting
    /\ \E initialTasks \in Ordered(tasks, NoFilters) :
          ui = FirstRender(initialTasks, getTaskStats(tasks, clock, clock, TRUE).stats)

\* the handlers of the page that change the store
NextMutations ==
    \/ openDialog
    \/ \E id \in TaskIds \cup {""}, values \in PageForms : onSubmit(id, values)
    \/ \E id \in TaskIds : handleDelete(id)
    \/ \E importData \in PageImports : handleImport(importData)
    \/ \E open \in BOOLEAN : setIsOpen(open)
    \/ handleDeleteAll
    \/ serveAddTask
    \/ serveEditTask
    \/ serveRemoveTask
    \/ serveImportTasks
    \/ serveDeleteAllTasks
    \/ serveFetchTasks
    \/ serveFetchStats
    \/ reject
    \/ onSubmitDone
    \/ handleDeleteDone
    \/ handleImportDone
    \/ handleDeleteAllDone
    \/ refreshTasksDone
    \/ refreshStatsDone

SpecMutations == InitPage /\ [][NextMutations]_vars

\* the delete-all dialog
NextDeleteAll ==
    \/ \E open \in BOOLEAN : setIsOpen(open)
    \/ handleDeleteAll
    \/ serveDeleteAllTasks
    \/ serveFetchTasks
    \/ serveFetchStats
    \/ reject
    \/ handleDeleteAllDone
    \/ refreshTasksDone
    \/ refreshStatsDone

SpecDeleteAll == InitPage /\ [][NextDeleteAll]_vars

\* the sort menu of the task list, the delete menu item of a task and the
\* delete-all dialog
NextUpdate ==
    \/ \E field \in PageSortFields : handleSort(field)
    \/ \E id \in TaskIds : handleDelete(id)
    \/ \E open \in BOOLEAN : setIsOpen(open)
    \/ handleDeleteAll
    \/ serveRemoveTask
    \/ serveDeleteAllTasks
    \/ serveFetchTasks
    \/ serveFetchStats
    \/ handleDeleteDone
    \/ handleDeleteAllDone
    \/ refreshTasksDone
    \/ refreshStatsDone

SpecUpdate == InitPage /\ [][NextUpdate]_vars

\* the task list over a store nobody changes, from the mount of the list on
\* (the statistics panel has loaded)
InitView ==
    /\ tasks = PagePool
    /\ clock = MaxClock
    /\ last = Result("none", "", NoForm, NoJson, TRUE, TRUE, "none")
    /\ importing = NotImporting
    /\ \E initialTasks \in Ordered(tasks, NoFilters) :
          ui = refreshTasksStart(
                  FirstRender(initialTasks, getTaskStats(tasks, clock, clock, TRUE).stats),
                  NoFilters)

NextView ==
    \/ \E s \in PageSearchTerms : setSearchTerm(s)
    \/ handleSearch
    \/ \E field \in PageSortFields : handleSort(field)
    \/ serveFetchTasks
    \/ reject
    \/ refreshTasksDone

SpecView == InitView /\ [][NextView]_vars

\* the search box and the column headers of the task list, every request
\* reaching the server
NextControls ==
    \/ \E s \in PageSearchTerms : setSearchTerm(s)
    \/ handleSearch
    \/ \E field \in PageSortFields : handleSort(field)
    \/ serveFetchTasks
    \/ refreshTasksDone

SpecControls == InitView /\ [][NextControls]_vars

(***************************************************************************)
(* One call of any server action on a collection of a few tasks            *)
(***************************************************************************)
NextActions ==
    \/ last.op = "none" /\ \E f \in Forms : addTask(f) /\ UNCHANGED ui
    \/ last.op = "none" /\ \E id \in TaskIds, f \in Forms : editTask(id, f) /\ UNCHANGED ui
    \/ last.op = "none" /\ \E id \in TaskIds : removeTask(id) /\ UNCHANGED ui
    \/ last.op = "none" /\ deleteAllTasks /\ UNCHANGED ui
    \/ last.op = "none" /\ \E f \in SortInputs : fetchTasks(f) /\ UNCHANGED ui
    \/ last.op = "none" /\ fetchStats /\ UNCHANGED ui
    \/ last.op = "none" /\ exportTasks /\ UNCHANGED ui
    \/ last.op = "none" /\ \E j \in ImportTexts : importTasks(j) /\ UNCHANGED ui

SpecActions == InitQuery /\ [][NextActions]_vars

(***************************************************************************)
(* Properties                                                              *)
(***************************************************************************)
\* the step is the request op: a request leaves the clock alone and sets last
Request(op) == clock' = clock /\ last'.op = op

\* the rows a JSON array of task objects denotes
RowsOf(json) == {ToRow(json.items[i]) : i \in 1..Len(json.items)}

\* text contains s as a substring, letter case ignored
Contains(text, s) ==
    \E i \in 0..(Len(text) - Len(s)) :
        toLowerCase(SubSeq(text, i + 1, i + Len(s))) = toLowerCase(s)

\* C1: after importTasksFromJSON(T) returns success for an array T of task
\* objects, the stored collection is exactly T ("[]" leaves it empty).
C1_ImportReplacesAll ==
    (last.op = "importTasks" /\ last.res = "success" /\ last.json.kind = "array")
        => tasks = RowsOf(last.json)

\* C2: with the store available deleteAllTasks returns success and the
\* collection then holds no record at all.
C2_DeleteAllEmpties ==
    (last.op = "deleteAllTasks" /\ last.up)
        => (last.res = "success" /\ tasks = {})

\* C3: exportTasksToJSON followed at once by importTasksFromJSON of the
\* exported string, the store available, leaves the collection as it was.
C3_RoundTrip ==
    [][(last.op = "exportTasks" /\ last.up /\ Request("importTasks")
            /\ last'.json = last.json /\ last'.up /\ last'.up2)
        => tasks' = tasks]_vars

\* C4: addTask and editTask answer with the validation error whenever title,
\* due_date, priority or status is absent or empty, and the collection is then
\* unchanged; a form that lacks only its description, or has an empty one, is
\* not rejected: with the store available it is stored.
C4_Validation ==
    [][(Request("addTask") \/ Request("editTask")) =>
        /\ MissingRequired(last'.form) => (last'.res = "missing" /\ tasks' = tasks)
        /\ ~MissingRequired(last'.form) =>
            /\ last'.res # "missing"
            /\ (last'.up /\ last'.id \in Ids(tasks) /\ last'.op = "editTask") => last'.res = "success"
            /\ (last'.up /\ last'.id \notin Ids(tasks) /\ last'.op = "addTask") => last'.res = "success"
      ]_vars

\* a form without due_date was rejected while tasks are stored, and a form
\* without description is what one of them was written from
C4_Witness ==
    /\ last.op = "addTask" /\ last.res = "missing"
    /\ ~Has(last.form, "due_date")
    /\ \E r \in tasks : ~Has(r, "description") /\ r.id # "dummy"

\* C5: editTask with an id that no stored task has does not answer success and
\* leaves the collection unchanged; updateTask with such an id does not return
\* a task.
C5_EditUnknownId ==
    [][(Request("editTask") /\ last'.id \notin Ids(tasks)) =>
        /\ last'.res # "success"
        /\ tasks' = tasks
        /\ \A up \in BOOLEAN :
              LET u == updateTask(tasks, last'.id, FormFields, Fields(FormB), up)
              IN  u.out # "task" /\ u.table = tasks
      ]_vars

\* a complete form was submitted for the id no task has, the store available
C5_Witness ==
    /\ last.op = "editTask" /\ last.id = UnknownId /\ last.up
    /\ ~MissingRequired(last.form)
    /\ last.res = "error"
    /\ tasks # {}

C7_EditKeepsIdentity ==
    [][(Request("editTask") /\ last'.res = "success") =>
        \E r \in tasks : \E r2 \in tasks' :
            /\ r.id = last'.id /\ r2.id = r.id
            /\ tasks' = (tasks \ {r}) \cup {r2}
            /\ Has(r2, "created_at") <=> Has(r, "created_at")
            /\ Has(r, "created_at") => r2.created_at = r.created_at
            /\ \A k \in FormFields :
                  /\ Has(r2, k) <=> Has(last'.form, k)
                  /\ Has(r2, k) => r2[k] = ToRow(last'.form)[k]
      ]_vars

\* the task created at clock 1 was edited at a later clock value, to a form
\* without description, and still has the created_at of its creation
C7_Witness ==
    /\ last.op = "editTask" /\ last.res = "success" /\ last.id = "1"
    /\ clock > 1
    /\ \E r \in tasks : r.id = "1" /\ r.created_at = 1 /\ ~Has(r, "description")

\* C8: no two stored tasks have the same id.
C8_UniqueIds == \A r1, r2 \in tasks : r1.id = r2.id => r1 = r2

\* a create issued at a clock value whose id is taken was refused by the
\* available store
C8_Witness ==
    /\ last.op = "addTask" /\ last.up /\ last.res = "error"
    /\ last.id \in Ids(tasks)

\* the tasks whose title or description contains the search text
Containing(t, s) ==
    {r \in t : Contains(r.title, s) \/ (Has(r, "description") /\ Contains(r.description, s))}

\* C9: for a non-empty search text s, getFilteredTasks({search: s}) returns
\* exactly the tasks whose title or description contains s, case ignored.
C9_SearchIsSubstring ==
    (/\ last.op = "fetchTasks" /\ last.up
     /\ Given(last.filters, "search")
     /\ ~Given(last.filters, "status") /\ ~Given(last.filters, "priority"))
        => last.rows = Containing(tasks, last.filters.search)

\* C10: getFilteredTasks returns exactly the tasks that satisfy every given
\* filter; a filter that is absent or empty excludes nothing.
C10_AllFilters ==
    (last.op = "fetchTasks" /\ last.up) =>
        last.rows = {r \in tasks :
            /\ Given(last.filters, "search") => r \in Containing(tasks, last.filters.search)
            /\ Given(last.filters, "status") => (Has(r, "status") /\ r.status = last.filters.status)
            /\ Given(last.filters, "priority") => (Has(r, "priority") /\ r.priority = last.filters.priority)}

\* the list read backwards
Reverse(q) == [i \in 1..Len(q) |-> q[Len(q) + 1 - i]]

\* C11: without sortBy the tasks are returned newest first by created_at,
\* whatever sortDirection is; with sortBy and a sortDirection that is absent or
\* is not 'desc' they are returned in ascending order of that column.
C11_DefaultAndDirection ==
    (last.op = "fetchTasks" /\ last.up) =>
        /\ Len(last.list) = Cardinality(last.rows)
        /\ {last.list[i] : i \in 1..Len(last.list)} = last.rows
        /\ ~Given(last.filters, "sortBy") =>
              \A i, j \in 1..Len(last.list) :
                  i < j => ~ColLess("created_at", last.list[i], last.list[j])
        /\ (Given(last.filters, "sortBy")
              /\ (Has(last.filters, "sortDirection") => last.filters.sortDirection # "desc")) =>
              \A i, j \in 1..Len(last.list) :
                  i < j => ~ColLess(last.filters.sortBy, last.list[j], last.list[i])

\* three tasks were fetched without sortBy and with sortDirection 'asc'
C11_Witness ==
    /\ last.op = "fetchTasks" /\ last.up
    /\ ~Has(last.filters, "sortBy")
    /\ Has(last.filters, "sortDirection") /\ last.filters.sortDirection = "asc"
    /\ Len(last.list) = 3
    /\ last.list[1].created_at > last.list[3].created_at

PriorityRank(v) == CASE v = "Low" -> 1 [] v = "Medium" -> 2 [] v = "High" -> 3
StatusRank(v) == CASE v = "Incomplete" -> 1 [] v = "In Progress" -> 2 [] v = "Completed" -> 3

\* C12: sorted by priority ascending, every Low task precedes every Medium
\* task and every Medium task precedes every High task.
C12_PriorityRankOrder ==
    (/\ last.op = "fetchTasks" /\ last.up
     /\ Given(last.filters, "sortBy") /\ last.filters.sortBy = "priority"
     /\ Has(last.filters, "sortDirection") /\ last.filters.sortDirection = "asc") =>
        \A i, j \in 1..Len(last.list) :
            i < j => PriorityRank(last.list[i].priority) <= PriorityRank(last.list[j].priority)

\* C13: sorted by status ascending, every Incomplete task precedes every In
\* Progress task and every In Progress task precedes every Completed task.
C13_StatusRankOrder ==
    (/\ last.op = "fetchTasks" /\ last.up
     /\ Given(last.filters, "sortBy") /\ last.filters.sortBy = "status"
     /\ Has(last.filters, "sortDirection") /\ last.filters.sortDirection = "asc") =>
        \A i, j \in 1..Len(last.list) :
            i < j => StatusRank(last.list[i].status) <= StatusRank(last.list[j].status)

\* the step asks again, in descending order, what was just asked ascending
AscThenDesc ==
    /\ last.op = "fetchTasks" /\ last.up
    /\ Given(last.filters, "sortBy")
    /\ Has(last.filters, "sortDirection") /\ last.filters.sortDirection = "asc"
    /\ Request("fetchTasks") /\ last'.up
    /\ last'.filters = Toggled(last.filters)

\* C14: for every sort field, stored collection and filter, the list returned
\* with 'desc' is the exact reverse of the list returned with 'asc', also when
\* several tasks have equal values of the sort field.
C14_ExactReverse == [][AscThenDesc => last'.list = Reverse(last.list)]_vars

\* C15: with the store available, totalTasks is the size of the whole
\* collection and completedTasks the number of Completed tasks, so that
\* completedTasks <= totalTasks and dueSoonTasks + completedTasks <= totalTasks.
C15_TotalsAndCompleted ==
    (last.op = "fetchStats" /\ last.up) =>
        /\ last.stats.totalTasks = Cardinality(tasks)
        /\ last.stats.completedTasks = Cardinality({r \in tasks : r.status = "Completed"})
        /\ last.stats.completedTasks <= last.stats.totalTasks
        /\ last.stats.dueSoonTasks + last.stats.completedTasks <= last.stats.totalTasks

\* the statistics of a task due within the week and a Completed task, itself
\* due within the week
C15_Witness ==
    /\ last.op = "fetchStats" /\ last.up
    /\ last.stats = [totalTasks |-> 2, completedTasks |-> 1, dueSoonTasks |-> 1]
    /\ \E r \in tasks : r.status = "Completed" /\ r.due_date >= last.now2
                          /\ r.due_date <= last.now + SevenDays

\* C16: dueSoonTasks is the number of tasks that are not Completed and whose
\* due date d satisfies now <= d <= now + 7 days, now taken at call time.
C16_DueSoonWindow ==
    (last.op = "fetchStats" /\ last.up) =>
        last.stats.dueSoonTasks =
            Cardinality({r \in tasks : /\ Has(r, "due_date")
                                       /\ last.now <= r.due_date
                                       /\ r.due_date <= last.now + SevenDays
                                       /\ r.status # "Completed"})

\* C17: in getTasks, getTaskById, updateTask, deleteTask, getFilteredTasks,
\* getTaskStats, exportTasksToJSON and importTasksFromJSON a store error is
\* caught and turned into a returned failure value (empty list, undefined,
\* null, false, zeroed statistics, '[]'), never propagated as an exception.
\* Checked in the states that follow a request the store did not answer, for
\* that request and for the other functions called on the same store.
C17_StoreErrorsReturned ==
    ~last.up =>
        /\ last.op = "editTask" =>
              updateTask(tasks, last.id, FormFields, Fields(last.form), FALSE).out = "null"
        /\ last.op = "removeTask" => deleteTask(tasks, last.id, FALSE).out = "false"
        /\ last.op = "exportTasks" => exportTasksToJSON(<<>>, FALSE).out = "[]"
        /\ last.op = "importTasks" =>
              importTasksFromJSON(tasks, last.json, FALSE, TRUE).out = "false"
        /\ getTasks(tasks, FALSE).out = "[]"
        /\ \A id \in TaskIds : getTaskById(tasks, id, FALSE).out = "undefined"
        /\ getFilteredTasks(tasks, NoFilters, FALSE).out = "[]"
        /\ getTaskStats(tasks, clock, clock, FALSE).out = "zero"

\* C18: importTasks of a string that is not valid JSON reports failure and
\* leaves the stored collection exactly as it was.
C18_InvalidJsonKeepsTasks ==
    [][(Request("importTasks") /\ ~last'.json.valid) =>
          (last'.res = "failure" /\ tasks' = tasks)]_vars

\* a text that is not JSON was imported over a stored task
C18_Witness ==
    /\ last.op = "importTasks" /\ ~last.json.valid /\ last.up
    /\ last.res = "failure"
    /\ tasks # {}

\* two records of the array have the same id
RepeatedIds(items) == \E i, j \in 1..Len(items) : i # j /\ items[i].id = items[j].id

\* C19: when the delete step succeeds and the insert step fails (store error
\* or two records of one id) the import reports failure, no record is
\* inserted and the deleted tasks are not restored; when the delete step
\* fails the import reports failure and the collection is intact.
C19_NotAtomic ==
    [][(Request("importTasks") /\ last'.json.valid) =>
          /\ ~last'.up => (last'.res = "failure" /\ tasks' = tasks)
          /\ (/\ last'.up
              /\ last'.json.kind = "array" /\ last'.json.items # <<>>
              /\ (~last'.up2 \/ RepeatedIds(last'.json.items))) =>
                 /\ last'.res = "failure"
                 /\ tasks' = {r \in tasks : r.id = "dummy"}
      ]_vars

\* an import of two records of one id failed after its delete step and the
\* store is empty
C19_Witness ==
    /\ last.op = "importTasks" /\ last.up /\ last.up2
    /\ RepeatedIds(last.json.items)
    /\ last.res = "failure"
    /\ tasks = {}

\* the create and the import have both returned success
BothSucceeded ==
    /\ last.op = "addTask" /\ last.res = "success"
    /\ importing.pc = "done" /\ importing.res = "success"

\* C20: with an import and a create as separate store requests, when both
\* return success and the create landed before the import's delete step the
\* created task is absent from the collection; when the create landed after
\* the import's insert the created task is present with the imported ones.
C20_CreateRacesImport ==
    BothSucceeded =>
        /\ importing.createdAtDelete =>
              \A r \in tasks : r.id = last.id => r \in RowsOf(importing.json)
        /\ ~importing.createdAtInsert =>
              /\ RowsOf(importing.json) \subseteq tasks
              /\ \E r \in tasks \ RowsOf(importing.json) :
                    r.id = last.id /\ r.title = last.form.title

\* the create returned success before the import deleted, the import of a
\* task returned success, and no task has the created id
C20_Witness ==
    /\ BothSucceeded
    /\ importing.createdAtDelete
    /\ importing.json.items # <<>>
    /\ last.id \notin Ids(tasks)

\* the call a step has added to the calls under way
Added == ui'.calls[Len(ui'.calls)]

\* the sort keys of filters are those of the sortBy and sortDirection state u
SortAgrees(filters, u) ==
    IF u.sortBy = ""
    THEN ~Has(filters, "sortBy") /\ ~Has(filters, "sortDirection")
    ELSE /\ Has(filters, "sortBy") /\ filters.sortBy = u.sortBy
         /\ Has(filters, "sortDirection") /\ filters.sortDirection = u.sortDirection

\* C24: handleSort(field) sets the direction to asc when field is not the
\* current sort field and toggles it when it is; the filters every refresh
\* of the list is called with carry the sortBy and sortDirection of the
\* component's state, and handleSort keeps the search filter.
C24_SortControls ==
    [][/\ \A field \in PageSortFields :
            handleSort(field) =>
               /\ ui'.sortBy = field
               /\ ui.sortBy # field => ui'.sortDirection = "asc"
               /\ ui.sortBy = field /\ ui.sortDirection = "asc" => ui'.sortDirection = "desc"
               /\ ui.sortBy = field /\ ui.sortDirection = "desc" => ui'.sortDirection = "asc"
               /\ Has(Added.filters, "search") <=> Has(ui.filters, "search")
               /\ Has(ui.filters, "search") => Added.filters.search = ui.filters.search
       /\ Len(ui'.calls) > Len(ui.calls) =>
               /\ Added.op = "fetchTasks"
               /\ Added.filters = ui'.filters
               /\ SortAgrees(Added.filters, ui')
      ]_vars

\* a search for "a", then the same column header twice
C24_Witness ==
    /\ ui.sortBy = "title" /\ ui.sortDirection = "desc"
    /\ Has(ui.filters, "search") /\ ui.filters.search = <<"a">>
    /\ \E i \in 1..Len(ui.calls) :
          /\ ui.calls[i].filters = ui.filters
          /\ ui.calls[i].filters.sortDirection = "desc"

\* the step completes the handler of the answered call i: the call is no
\* longer under way, and the calls after the others are ones the handler has
\* just started
Completes(i) ==
    /\ Len(ui'.calls) >= Len(ui.calls) - 1
    /\ SubSeq(ui'.calls, 1, Len(ui.calls) - 1) = Remove(ui.calls, i)
    /\ \A j \in Len(ui.calls)..Len(ui'.calls) : ui'.calls[j].phase = "sent"

\* the handlers that call a server action changing the store
MutationHandlers == {"onSubmit", "handleDelete", "handleDeleteAll", "handleImport"}

\* what a server action returns for a failure
Failures == {"error", "missing", "failure"}

\* C21: whenever addTask, editTask, removeTask, deleteAllTasks or importTasks
\* returns an error or success: false to the handler that called it, the
\* handler shows an error notification and does not run its success path
\* (no dialog is closed, onSuccess is not called, so no refresh is started).
C21_FailuresNotified ==
    [][\A h \in MutationHandlers : \A i \in Answered(h) :
          (Completes(i) /\ ui.calls[i].out.res \in Failures) =>
              /\ ui'.done.toast = "error"
              /\ ui'.isDialogOpen = ui.isDialogOpen
              /\ ui'.isOpen = ui.isOpen
              /\ Len(ui'.calls) = Len(ui.calls) - 1
      ]_vars

\* the calls a step has started
NewCalls ==
    IF \E i \in 1..Len(ui.calls) : ui.calls[i].phase = "answered" /\ Completes(i)
    THEN Len(ui.calls)..Len(ui'.calls)
    ELSE (Len(ui.calls) + 1)..Len(ui'.calls)

\* the server actions of the calls a step has started
Started == {ui'.calls[j].op : j \in NewCalls}

\* C22: after every mutation the page initiated and that succeeded (create,
\* edit, delete one task, delete all, import), both the task list and the
\* statistics are fetched again.
C22_RefetchAfterMutation ==
    [][\A h \in MutationHandlers : \A i \in Answered(h) :
          (Completes(i) /\ ui.calls[i].out.res = "success") =>
              {"fetchTasks", "fetchStats"} \subseteq Started
      ]_vars

\* C23: every refresh of the task list calls fetchTasks with the filters in
\* effect when it starts, also the refresh a taskUpdate event triggers after
\* the user has set a search text or a sort field.
C23_RefreshUsesCurrentFilters ==
    [][\A j \in NewCalls :
          ui'.calls[j].op = "fetchTasks" => ui'.calls[j].filters = ui'.filters]_vars

\* the delete-all calls under way
Deleting == {i \in 1..Len(ui.calls) : ui.calls[i].h = "handleDeleteAll"}

\* C25: the delete-all dialog is closed and taskUpdate is dispatched (the
\* list and the statistics start a refresh) only when deleteAllTasks reported
\* success; otherwise the handler leaves the dialog open, shows an error
\* notification and dispatches nothing; isDeleting is true from the click
\* until the action completes and false afterwards, and no second delete-all
\* is started while it is true.
C25_DeleteAllDialog ==
    /\ [](ui.isDeleting <=> Deleting # {})
    /\ [](Cardinality(Deleting) <= 1)
    /\ [][\A i \in Answered("handleDeleteAll") : Completes(i) =>
             /\ ~ui'.isDeleting
             /\ IF ui.calls[i].out.res = "success"
                THEN /\ ~ui'.isOpen
                     /\ ui'.done.toast = "success"
                     /\ Started = {"fetchTasks", "fetchStats"}
                ELSE /\ ui'.isOpen = ui.isOpen
                     /\ ui'.done.toast = "error"
                     /\ Started = {}
       ]_vars

\* the delete-all has succeeded: the table is empty, the dialog closed and
\* the two refreshes under way
C25_Witness ==
    /\ ui.done = [h |-> "handleDeleteAll", res |-> "success", toast |-> "success"]
    /\ tasks = {}
    /\ ~ui.isOpen /\ ~ui.isDeleting
    /\ {ui.calls[i].op : i \in 1..Len(ui.calls)} = {"fetchTasks", "fetchStats"}

\* the shapes of the result objects of the server actions
ResultObjects ==
    [addTask |-> {"missing", "error", "success"},
     editTask |-> {"missing", "error", "success", "failure"},
     removeTask |-> {"success", "failure"},
     deleteAllTasks |-> {"success", "failure"},
     fetchTasks |-> {"tasks"},
     fetchStats |-> {"stats"},
     exportTasks |-> {"json"},
     importTasks |-> {"success", "failure"}]

\* C26: every server action returns a result object for every outcome of
\* the store and lets no exception reach its caller; on a store error
\* fetchTasks returns an empty list, fetchStats all-zero statistics,
\* exportTasks the string "[]" and importTasks success: false.
C26_ActionsReturnResults ==
    last.op # "none" =>
        /\ last.res \in ResultObjects[last.op]
        /\ ~last.up =>
              /\ last.op = "fetchTasks" => last.list = <<>>
              /\ last.op = "fetchStats" => last.stats = ZeroStats
              /\ last.op = "exportTasks" => last.json = JsonArray(<<>>)
              /\ last.op = "importTasks" => last.res = "failure"
              /\ last.op \in {"addTask", "editTask"} => last.res = "error"
              /\ last.op \in {"removeTask", "deleteAllTasks"} => last.res = "failure"

\* an export of a stored task was asked of a store that did not answer
C26_Witness ==
    /\ last.op = "exportTasks" /\ ~last.up
    /\ tasks # {}
    /\ last.json = JsonArray(<<>>)

\* C27: importTasksFromJSON of a text that is valid JSON but not an array
\* (an object, null) deletes no stored task.
C27_NonArrayKeepsTasks ==
    [][(Request("importTasks") /\ last'.json.valid /\ last'.json.kind # "array") =>
          tasks' = tasks]_vars

\* C28: an addTask call with all required fields on an available store adds
\* exactly one record, with an id no stored task had and the submitted
\* values, and changes no other task, whatever other addTask calls did
\* (one at the same clock value included).
C28_CreateAddsOne ==
    [][(Request("addTask") /\ ~MissingRequired(last'.form) /\ last'.up) =>
          /\ last'.res = "success"
          /\ \E r \in tasks' :
                /\ r.id \notin Ids(tasks)
                /\ tasks' = tasks \cup {r}
                /\ \A k \in {"title", "priority", "status"} : r[k] = last'.form[k]
      ]_vars

\* C29: once every overlapping refresh of the task list has completed, the
\* displayed tasks are the result of the fetch made with the latest filters.
\* (shownFor = the filters of the fetch whose result is displayed)
C29_LatestFiltersShown ==
    ui.calls = <<>> => \/ ui.shownFor = ui.filters
                       \/ ui.tasks \in Ordered(tasks, ui.filters)

\* C30: in the task list isLoading is true exactly while at least one refresh
\* is in flight: the completion of one refresh does not clear it while
\* another is pending, and it is false once all have completed.
C30_LoadingWhileInFlight ==
    ui.isLoading <=> \E i \in 1..Len(ui.calls) : ui.calls[i].h = "refreshTasks"

====
